---------------------------- MODULE Spec2Model ----------------------------
(***************************************************************************)
(* Model of www/assets/js/app.js of crteal/shh: the input mode state       *)
(* machine, the audio capture pipeline, the text submission path and the   *)
(* streaming response assembler, as event handlers run by one event loop.  *)
(*                                                                         *)
(* Every action is one handler run to completion (JavaScript handlers are  *)
(* atomic with respect to each other).  The browser is the environment:    *)
(* it delivers input, click and keydown events, settles the getUserMedia   *)
(* promise, runs animation-frame callbacks in registration order, runs the *)
(* MediaRecorder's tasks in order, completes FileReader reads, and drives  *)
(* the EventSource's readyState.                                           *)
(*                                                                         *)
(* Texts are sequences of characters, so joining chunks is concatenation.  *)
(* Variables marked "history" record what the environment did; no handler  *)
(* reads them.                                                             *)
(***************************************************************************)
EXTENDS Integers, Sequences, FiniteSets, TLC

\* ------------------------------------------------------------- bounds
MaxTurns == 3       \* user turns: text submissions plus capture sessions
MaxData == 1        \* dataavailable events the recorder fires before stop
MaxMsgs == 4        \* push-channel messages delivered
MaxLog == 1         \* clicks refused for want of a recorder
MaxPage == 4        \* events of the whole page, input and channel together

\* ---------------------------------------------------------- constants
ENTITY_MICROPHONE == "&#127908;"
ENTITY_RECORD == "&#9632;"
ENTITY_SUBMIT == "&#8593;"

KEY_ENTER == 13
KeyCodes == {KEY_ENTER, 65}     \* Enter, and some other key

\* Field contents the user can produce, and chunk contents the server sends.
Texts == {<<>>, <<"h">>, <<"h", "i">>}
Contents == {<<"A">>, <<"B">>}

VARIABLES
  state,          \* inputStateMachine.state
  value,          \* messageInput.value
  glyph,          \* messageButton.innerHTML
  active,         \* messageButton.classList has animate-pulse / text-red-500
  grant,          \* the getUserMedia promise: pending, granted, denied
  mediaRecorder,  \* undefined, or mediaRecorder.state: inactive, recording
  recChunks,      \* chunks of createMediaRecorder
  stopTasks,      \* recorder tasks queued by stop(): sessions awaiting onstop
  readers,        \* FileReader reads in progress (the clips being read)
  rafQueue,       \* animation-frame callbacks of addTextMessage (their text)
  posts,          \* bodies passed to fetch('/chat', POST), in call order
  timeline,       \* children of #messages, in document order
  console,        \* console.error calls
  el,             \* el of createEventSource: 0 is null, else a node id
  chunks,         \* chunks of createEventSource
  nextNode,       \* id of the next responding indicator created
  readyState,     \* eventSource.readyState
  nsessions,      \* history: capture sessions started
  captured,       \* history: blobs the recorder fired, per session
  calls,          \* history: start()/stop() calls on the recorder
  reply,          \* history: chunks received since the last done
  completed,      \* history: joined text of every reply whose done arrived
  nmsgs,          \* history: messages delivered
  errored         \* history: an error event was fired on the channel

inputVars == <<state, value, glyph, active>>
recVars == <<grant, mediaRecorder, recChunks, stopTasks, readers, nsessions,
             captured, calls>>
esVars == <<el, chunks, nextNode, readyState, reply, completed, nmsgs, errored>>
vars == <<state, value, glyph, active, grant, mediaRecorder, recChunks,
          stopTasks, readers, rafQueue, posts, timeline, console, el, chunks,
          nextNode, readyState, nsessions, captured, calls, reply, completed,
          nmsgs, errored>>

\* ------------------------------------------------------------ helpers
RECURSIVE join(_)
join(cs) == IF cs = <<>> THEN <<>> ELSE Head(cs) \o join(Tail(cs))

\* marked.parse: a paragraph around plain text, nothing for no text.
markedParse(text) ==
  IF text = <<>> THEN <<>> ELSE <<"<p>">> \o text \o <<"</p>">>

\* A signal handed to transition: a string, or undefined (no argument).
Str(t) == [type |-> "string", val |-> t]
Undefined == [type |-> "undefined", val |-> <<>>]
Truthy(sig) == sig.type = "string" /\ sig.val # <<>>

\* Mutant of states: SUBMIT tests the type of the signal, not its emptiness.
states_submitSticky(s, sig) ==
  CASE s = ENTITY_MICROPHONE ->
         IF sig.type = "string"
         THEN (IF ~Truthy(sig) THEN ENTITY_MICROPHONE ELSE ENTITY_SUBMIT)
         ELSE ENTITY_RECORD
    [] s = ENTITY_SUBMIT ->
         IF sig.type = "string" THEN ENTITY_SUBMIT ELSE ENTITY_MICROPHONE
    [] s = ENTITY_RECORD -> ENTITY_MICROPHONE

\* Mutant of states: the branches of the SUBMIT ternary are exchanged.
states_submitFlips(s, sig) ==
  CASE s = ENTITY_MICROPHONE ->
         IF sig.type = "string"
         THEN (IF ~Truthy(sig) THEN ENTITY_MICROPHONE ELSE ENTITY_SUBMIT)
         ELSE ENTITY_RECORD
    [] s = ENTITY_SUBMIT ->
         IF Truthy(sig) THEN ENTITY_MICROPHONE ELSE ENTITY_SUBMIT
    [] s = ENTITY_RECORD -> ENTITY_MICROPHONE

\* inputStateMachine.states[s](sig)
states(s, sig) ==
  CASE s = ENTITY_MICROPHONE ->
         IF sig.type = "string"
         THEN (IF ~Truthy(sig) THEN ENTITY_MICROPHONE ELSE ENTITY_SUBMIT)
         ELSE ENTITY_RECORD
    [] s = ENTITY_SUBMIT ->
         IF Truthy(sig) THEN ENTITY_SUBMIT ELSE ENTITY_MICROPHONE
    [] s = ENTITY_RECORD -> ENTITY_MICROPHONE

\* inputStateMachine.transition(sig): the state it leaves and returns.
transition(sig) == states(state, sig)

\* Timeline entries: a message element and what it holds.
TextMessage(owner, text) ==
  [owner |-> owner, kind |-> "text", html |-> markedParse(text),
   clip |-> <<>>, node |-> 0]
ContentMessage(owner, node) ==
  [owner |-> owner, kind |-> "indicator", html |-> <<>>, clip |-> <<>>,
   node |-> node]
AudioMessage(owner, blob) ==
  [owner |-> owner, kind |-> "audio", html |-> <<>>, clip |-> blob,
   node |-> 0]

\* addMessage(owner, data): data.text if truthy, else data.content.
addMessage(tl, owner, text, node) ==
  IF text # <<>> THEN Append(tl, TextMessage(owner, text))
  ELSE IF node # 0 THEN Append(tl, ContentMessage(owner, node))
  ELSE Append(tl, [owner |-> owner, kind |-> "empty", html |-> <<>>,
                   clip |-> <<>>, node |-> 0])

\* Mutant of addAudioMessage: messages.append(el) is missing.
addAudioMessage_detached(tl, owner, blob) == tl

\* addAudioMessage(owner, url)
addAudioMessage(tl, owner, blob) == Append(tl, AudioMessage(owner, blob))

\* Mutant of replaceWith: the indicator's message is removed and the
\* rendered text is appended as a new message at the end.
replaceWith_moveToEnd(tl, message, text) ==
  IF \E i \in DOMAIN tl : tl[i].kind = "indicator" /\ tl[i].node = message
  THEN Append(SelectSeq(tl, LAMBDA e : ~(e.kind = "indicator"
                                           /\ e.node = message)),
              TextMessage("partner", text))
  ELSE tl

\* message.replaceWith(div) for a non-null message: the indicator is swapped
\* for the rendered text inside its message element; a node with no parent
\* (already replaced) is left alone.
replaceWith(tl, message, text) ==
  [i \in DOMAIN tl |->
     IF tl[i].kind = "indicator" /\ tl[i].node = message
     THEN [tl[i] EXCEPT !.kind = "text", !.html = markedParse(text),
                        !.node = 0]
     ELSE tl[i]]

\* postMessage(type, data): the body given to fetch.
TextBody(text) == [type |-> "text", data |-> text, audio |-> <<>>]
AudioBody(b64) == [type |-> "audio", data |-> <<>>, audio |-> b64]

\* FileReader.readAsDataURL and the prefix strip of reader.onloadend.
Base64(blob) == [i \in DOMAIN blob |-> <<"b64", blob[i]>>]
readAsDataURL(blob) == <<"data:audio/ogg; codecs=opus;base64,">> \o Base64(blob)
stripPrefix(url) == Tail(url)

\* The blob the recorder fires as the k-th dataavailable of session s.
Blob(s, k) == 10 * s + k

NumTextPosts == Cardinality({i \in DOMAIN posts : posts[i].type = "text"})
NumRefused ==
  Cardinality({i \in DOMAIN console :
                 console[i] = "mediaRecorder is not available"})

\* -------------------------------------------------------------- Init
Init ==
  /\ state = ENTITY_MICROPHONE
  /\ value = <<>>
  /\ glyph = ENTITY_MICROPHONE
  /\ active = FALSE
  /\ grant = "pending"
  /\ mediaRecorder = "undefined"
  /\ recChunks = <<>>
  /\ stopTasks = <<>>
  /\ readers = {}
  /\ rafQueue = <<>>
  /\ posts = <<>>
  /\ timeline = <<>>
  /\ console = <<>>
  /\ el = 0
  /\ chunks = <<>>
  /\ nextNode = 1
  /\ readyState = "CONNECTING"
  /\ nsessions = 0
  /\ captured = [s \in 1..MaxTurns |-> <<>>]
  /\ calls = <<>>
  /\ reply = <<>>
  /\ completed = <<>>
  /\ nmsgs = 0
  /\ errored = FALSE

\* ------------------------------------------------------- input side
\* Mutant of onMessageInputChange: the button is not rewritten.
onMessageInputChange_noGlyph(v) ==
  /\ state' = transition(Str(v))
  /\ glyph' = glyph

\* onMessageInputChange, with messageInput.value already v.
onMessageInputChange(v) ==
  /\ state' = transition(Str(v))
  /\ glyph' = IF state # state' THEN state' ELSE glyph

\* The user edits the field; the input event runs onMessageInputChange.
Input ==
  \E v \in Texts :
    /\ value' = v
    /\ onMessageInputChange(v)
    /\ UNCHANGED <<active, rafQueue, posts, timeline, console>>
    /\ UNCHANGED recVars
    /\ UNCHANGED esVars

\* addTextMessage: post now, render and clear in an animation frame.
addTextMessage ==
  /\ NumTextPosts + nsessions < MaxTurns
  /\ posts' = Append(posts, TextBody(value))
  /\ rafQueue' = Append(rafQueue, value)
  /\ UNCHANGED <<timeline, console>>
  /\ UNCHANGED inputVars
  /\ UNCHANGED recVars
  /\ UNCHANGED esVars

\* The animation-frame callback of addTextMessage.
AnimationFrame ==
  /\ rafQueue # <<>>
  /\ timeline' = addMessage(timeline, "self", Head(rafQueue), 0)
  /\ value' = <<>>
  /\ onMessageInputChange(<<>>)
  /\ rafQueue' = Tail(rafQueue)
  /\ UNCHANGED <<active, posts, console>>
  /\ UNCHANGED recVars
  /\ UNCHANGED esVars

\* Mutant of Keydown: the test of messageInput.value is missing.
Keydown_noValueCheck ==
  \E keyCode \in KeyCodes, shiftKey \in BOOLEAN,
     repeat \in BOOLEAN :
    IF keyCode = KEY_ENTER /\ ~shiftKey /\ ~repeat
    THEN addTextMessage
    ELSE UNCHANGED vars

\* The keydown listener of the field.
Keydown ==
  \E keyCode \in KeyCodes, shiftKey \in BOOLEAN,
     repeat \in BOOLEAN :
    IF value # <<>> /\ keyCode = KEY_ENTER /\ ~shiftKey /\ ~repeat
    THEN addTextMessage
    ELSE UNCHANGED vars

\* mediaRecorder.start()
start ==
  /\ NumTextPosts + nsessions < MaxTurns
  /\ mediaRecorder' = "recording"
  /\ nsessions' = nsessions + 1
  /\ calls' = Append(calls, "start")
  /\ UNCHANGED stopTasks

\* mediaRecorder.stop(): inactive at once, dataavailable and stop in a task.
stop ==
  /\ mediaRecorder' = "inactive"
  /\ stopTasks' = Append(stopTasks, nsessions)
  /\ calls' = Append(calls, "stop")
  /\ UNCHANGED nsessions

\* The click listener, field non-empty: submit and return.
clickSubmit == addTextMessage

\* Mutant of clickNoRecorder: the recorder test is missing, so the listener
\* toggles the machine and then fails on mediaRecorder.state.
clickNoRecorder_toggles ==
  /\ state' = states(state, Undefined)
  /\ UNCHANGED <<value, glyph, active>>
  /\ UNCHANGED <<rafQueue, posts, timeline, console>>
  /\ UNCHANGED recVars
  /\ UNCHANGED esVars

\* The click listener, field empty and no recorder: log and return.
clickNoRecorder ==
  /\ NumRefused < MaxLog
  /\ console' = Append(console, "mediaRecorder is not available")
  /\ UNCHANGED <<rafQueue, posts, timeline>>
  /\ UNCHANGED inputVars
  /\ UNCHANGED recVars
  /\ UNCHANGED esVars

\* Mutant of shouldStart: the listener trusts the machine's new state.
shouldStart_byMode == states(state, Undefined) = ENTITY_RECORD

\* The test that routes a click to start() rather than stop().
shouldStart == mediaRecorder = "inactive"

\* Mutant of clickToggle: the decoration is set from the Mode the click
\* moved to, not from mediaRecorder.state.
clickToggle_decorByMode ==
  /\ state' = transition(Undefined)
  /\ glyph' = state'
  /\ active' = (state' = ENTITY_RECORD)
  /\ IF shouldStart THEN start ELSE stop
  /\ UNCHANGED <<value, grant, recChunks, readers, captured>>
  /\ UNCHANGED <<rafQueue, posts, timeline, console>>
  /\ UNCHANGED esVars

\* The click listener, field empty and a recorder: toggle the capture.
clickToggle ==
  /\ state' = transition(Undefined)
  /\ glyph' = state'
  /\ IF shouldStart
     THEN active' = TRUE /\ start
     ELSE active' = FALSE /\ stop
  /\ UNCHANGED <<value, grant, recChunks, readers, captured>>
  /\ UNCHANGED <<rafQueue, posts, timeline, console>>
  /\ UNCHANGED esVars

\* The click listener of the action button.
Click ==
  IF value # <<>> THEN clickSubmit
  ELSE IF mediaRecorder = "undefined" THEN clickNoRecorder
  ELSE clickToggle

\* ------------------------------------------------- capture pipeline
\* getUserMedia resolves: mediaRecorder = createMediaRecorder(stream).
GetUserMediaResolved ==
  /\ grant = "pending"
  /\ grant' = "granted"
  /\ mediaRecorder' = "inactive"
  /\ UNCHANGED <<recChunks, stopTasks, readers, nsessions, captured, calls>>
  /\ UNCHANGED <<rafQueue, posts, timeline, console>>
  /\ UNCHANGED inputVars
  /\ UNCHANGED esVars

\* getUserMedia rejects: the catch logs it.
GetUserMediaRejected ==
  /\ grant = "pending"
  /\ grant' = "denied"
  /\ console' = Append(console, "error encountered from getUserMedia")
  /\ UNCHANGED <<mediaRecorder, recChunks, stopTasks, readers, nsessions,
                 captured, calls>>
  /\ UNCHANGED <<rafQueue, posts, timeline>>
  /\ UNCHANGED inputVars
  /\ UNCHANGED esVars

\* mediaRecorder.ondataavailable
ondataavailable(cs, data) == Append(cs, data)

\* The recorder fires dataavailable while recording.  Recorder tasks run in
\* order, so none of a new session runs before a queued stop task.
DataAvailable ==
  /\ mediaRecorder = "recording"
  /\ stopTasks = <<>>
  /\ Len(captured[nsessions]) < MaxData
  /\ LET data == Blob(nsessions, Len(captured[nsessions]) + 1) IN
       /\ recChunks' = ondataavailable(recChunks, data)
       /\ captured' = [captured EXCEPT ![nsessions] = Append(@, data)]
  /\ UNCHANGED <<grant, mediaRecorder, stopTasks, readers, nsessions, calls>>
  /\ UNCHANGED <<rafQueue, posts, timeline, console>>
  /\ UNCHANGED inputVars
  /\ UNCHANGED esVars

\* Mutant of onstopChunks: chunks = [] is missing.
onstopChunks_kept(cs) == cs

\* mediaRecorder.onstop: what it leaves in chunks and the blob it builds.
onstopBlob(cs) == cs
onstopChunks(cs) == <<>>

\* Mutant of StopTask: the recorder and the event source share one chunks
\* array, so onstop's chunks = [] also empties the reply being assembled.
StopTask_sharedChunks ==
  /\ stopTasks # <<>>
  /\ LET s == Head(stopTasks)
         data == Blob(s, Len(captured[s]) + 1)
         cs == ondataavailable(recChunks, data)
         blob == onstopBlob(cs)
     IN
       /\ captured' = [captured EXCEPT ![s] = Append(@, data)]
       /\ recChunks' = onstopChunks(cs)
       /\ timeline' = addAudioMessage(timeline, "self", blob)
       /\ readers' = readers \cup {blob}
  /\ stopTasks' = Tail(stopTasks)
  /\ chunks' = <<>>
  /\ UNCHANGED <<grant, mediaRecorder, nsessions, calls>>
  /\ UNCHANGED <<rafQueue, posts, console>>
  /\ UNCHANGED inputVars
  /\ UNCHANGED <<el, nextNode, readyState, reply, completed, nmsgs, errored>>

\* The task queued by stop(): the last dataavailable, then onstop.
StopTask ==
  /\ stopTasks # <<>>
  /\ LET s == Head(stopTasks)
         data == Blob(s, Len(captured[s]) + 1)
         cs == ondataavailable(recChunks, data)
         blob == onstopBlob(cs)
     IN
       /\ captured' = [captured EXCEPT ![s] = Append(@, data)]
       /\ recChunks' = onstopChunks(cs)
       /\ timeline' = addAudioMessage(timeline, "self", blob)
       /\ readers' = readers \cup {blob}
  /\ stopTasks' = Tail(stopTasks)
  /\ UNCHANGED <<grant, mediaRecorder, nsessions, calls>>
  /\ UNCHANGED <<rafQueue, posts, console>>
  /\ UNCHANGED inputVars
  /\ UNCHANGED esVars

\* reader.onloadend
onloadend(ps, blob) == Append(ps, AudioBody(stripPrefix(readAsDataURL(blob))))

LoadEnd ==
  \E blob \in readers :
    /\ posts' = onloadend(posts, blob)
    /\ readers' = readers \ {blob}
    /\ UNCHANGED <<grant, mediaRecorder, recChunks, stopTasks, nsessions,
                   captured, calls>>
    /\ UNCHANGED <<rafQueue, timeline, console>>
    /\ UNCHANGED inputVars
    /\ UNCHANGED esVars

\* ------------------------------------------ streaming response assembler
\* Mutant of onmessage: a later chunk that is not done renders what has
\* arrived so far in place of the indicator.
onmessage_progressive(data) ==
  LET pushed == Append(chunks, data.content) IN
    IF data.done
    THEN IF el = 0
         THEN /\ chunks' = pushed
              /\ UNCHANGED <<el, nextNode, timeline>>
         ELSE /\ timeline' = replaceWith(timeline, el, join(pushed))
              /\ chunks' = <<>>
              /\ UNCHANGED <<el, nextNode>>
    ELSE IF Len(pushed) = 1
    THEN /\ el' = nextNode
         /\ nextNode' = nextNode + 1
         /\ timeline' = addMessage(timeline, "partner", <<>>, nextNode)
         /\ chunks' = pushed
    ELSE /\ chunks' = pushed
         /\ timeline' = IF el = 0 THEN timeline
                        ELSE replaceWith(timeline, el, join(pushed))
         /\ UNCHANGED <<el, nextNode>>

\* eventSource.onmessage for data = {content, done}.
onmessage(data) ==
  LET pushed == Append(chunks, data.content) IN
    IF data.done
    THEN IF el = 0
         THEN \* appendToMessage(null, ...): null.replaceWith throws, and
              \* the handler ends before chunks = []
              /\ chunks' = pushed
              /\ UNCHANGED <<el, nextNode, timeline>>
         ELSE /\ timeline' = replaceWith(timeline, el, join(pushed))
              /\ chunks' = <<>>
              /\ UNCHANGED <<el, nextNode>>
    ELSE IF Len(pushed) = 1
    THEN /\ el' = nextNode
         /\ nextNode' = nextNode + 1
         /\ timeline' = addMessage(timeline, "partner", <<>>, nextNode)
         /\ chunks' = pushed
    ELSE /\ chunks' = pushed
         /\ UNCHANGED <<el, nextNode, timeline>>

Message ==
  \E content \in Contents, done \in BOOLEAN :
    /\ readyState = "OPEN"
    /\ nmsgs < MaxMsgs
    /\ onmessage([content |-> content, done |-> done])
    /\ nmsgs' = nmsgs + 1
    /\ reply' = IF done THEN <<>> ELSE Append(reply, content)
    /\ completed' = IF done THEN Append(completed, join(Append(reply, content)))
                    ELSE completed
    /\ UNCHANGED <<readyState, errored>>
    /\ UNCHANGED <<rafQueue, posts, console>>
    /\ UNCHANGED inputVars
    /\ UNCHANGED recVars

\* The connection is established (first, or again after an error).
Open ==
  /\ readyState = "CONNECTING"
  /\ readyState' = "OPEN"
  /\ UNCHANGED <<el, chunks, nextNode, reply, completed, nmsgs, errored>>
  /\ UNCHANGED <<rafQueue, posts, timeline, console>>
  /\ UNCHANGED inputVars
  /\ UNCHANGED recVars

\* eventSource.onerror: the template literal reads err, which no scope
\* binds (the parameter is named error), so the handler throws a
\* ReferenceError before console.error and before eventSource.close().
\* It returns the readyState it leaves.
onerror(rs) == rs

\* The browser fires error: it has either started to reconnect
\* (CONNECTING) or given up (CLOSED); then the handler runs.
Error ==
  \E rs \in {"CONNECTING", "CLOSED"} :
    /\ readyState \in {"CONNECTING", "OPEN"}
    /\ readyState' = onerror(rs)
    /\ errored' = TRUE
    /\ UNCHANGED <<el, chunks, nextNode, reply, completed, nmsgs>>
    /\ UNCHANGED <<rafQueue, posts, timeline, console>>
    /\ UNCHANGED inputVars
    /\ UNCHANGED recVars

\* ------------------------------------------------------ specification
\* The whole page: every handler, in every interleaving.
Next ==
  \/ Input
  \/ Keydown
  \/ Click
  \/ AnimationFrame
  \/ GetUserMediaResolved
  \/ GetUserMediaRejected
  \/ DataAvailable
  \/ StopTask
  \/ LoadEnd
  \/ Message
  \/ Open
  \/ Error

Spec == Init /\ [][Next]_vars

\* The whole page within a budget of events: text submissions, capture
\* sessions, channel messages, console errors, blobs fired while recording
\* and a channel error.  The budget stops new events of these kinds, never a
\* queued task (an animation frame, a stop task, the end of a read).
RECURSIVE EarlyBlobs(_)
EarlyBlobs(s) ==
  IF s = 0 THEN 0
  ELSE EarlyBlobs(s - 1) + Len(captured[s])
       - (IF s <= Len(calls) \div 2 - Len(stopTasks) THEN 1 ELSE 0)

PageSize ==
  NumTextPosts + nsessions + nmsgs + Len(console) + EarlyBlobs(nsessions)
  + (IF errored THEN 1 ELSE 0)

InBudget == PageSize' <= MaxPage

NextPage ==
  \/ Input
  \/ Keydown /\ InBudget
  \/ Click /\ InBudget
  \/ AnimationFrame
  \/ GetUserMediaResolved
  \/ GetUserMediaRejected /\ InBudget
  \/ DataAvailable /\ InBudget
  \/ StopTask
  \/ LoadEnd
  \/ Message /\ InBudget
  \/ Open
  \/ Error /\ InBudget

SpecPage == Init /\ [][NextPage]_vars

\* The input side alone: the field, the button, the capture pipeline and
\* the text submission path, with a silent push channel.
NextInput ==
  \/ Input
  \/ Keydown
  \/ Click
  \/ AnimationFrame
  \/ GetUserMediaResolved
  \/ GetUserMediaRejected
  \/ DataAvailable
  \/ StopTask
  \/ LoadEnd

SpecInput == Init /\ [][NextInput]_vars

\* The event loop runs every queued task and callback: animation frames,
\* the recorder's stop task and the completion of a FileReader read.
FairSpecInput ==
  /\ SpecInput
  /\ WF_vars(AnimationFrame)
  /\ WF_vars(StopTask)
  /\ WF_vars(LoadEnd)

\* The push channel alone, with an idle user.
NextChannel ==
  \/ Message
  \/ Open
  \/ Error

SpecChannel == Init /\ [][NextChannel]_vars

\* ------------------------------------------------------------- claims
\* What the timeline and the posts hold, read off for the claims.
PartnerEntries == SelectSeq(timeline, LAMBDA e : e.owner = "partner")
PartnerTexts ==
  SelectSeq(timeline, LAMBDA e : e.owner = "partner" /\ e.kind = "text")
SelfTexts == SelectSeq(timeline, LAMBDA e : e.owner = "self" /\ e.kind = "text")
AudioEntries == SelectSeq(timeline, LAMBDA e : e.kind = "audio")
TextPosts == SelectSeq(posts, LAMBDA p : p.type = "text")
AudioPosts == SelectSeq(posts, LAMBDA p : p.type = "audio")
Rendered(texts) == [i \in DOMAIN texts |-> markedParse(texts[i])]
Html(entries) == [i \in DOMAIN entries |-> entries[i].html]
ReplyOpen == IF reply # <<>> THEN 1 ELSE 0

\* C1: Mode = RECORDING exactly when the capture session is recording, and
\* Mode = SUBMIT exactly when the field is non-empty and no capture session
\* is recording.
C1_ModeAgrees ==
  /\ state = ENTITY_RECORD <=> mediaRecorder = "recording"
  /\ state = ENTITY_SUBMIT <=> (value # <<>> /\ mediaRecorder # "recording")

\* C2: the partner texts in the timeline are, in order, the renderings of
\* the joined chunks of every reply whose done chunk arrived, each exactly
\* once, and each took the place of one placeholder (the only partner entry
\* that is not a text is the placeholder of the open reply).
C2_RenderedOnce ==
  /\ Html(PartnerTexts) = Rendered(completed)
  /\ Len(PartnerEntries) - Len(PartnerTexts) = ReplyOpen

\* C3: every reply that has begun, whether or not its first chunk carried
\* done, has one partner entry in the timeline: the placeholder el points
\* to while the reply is open, a partner message once it is complete.
C3_FirstChunkPlaceholder ==
  /\ Len(PartnerEntries) = Len(completed) + ReplyOpen
  /\ reply # <<>> =>
       /\ el # 0
       /\ PartnerEntries[Len(PartnerEntries)] = ContentMessage("partner", el)

\* C4: after a done chunk the chunk sequence is empty, the accumulated
\* chunks are those of the one open reply, and no partner text holds a chunk
\* of another reply.
C4_FreshReply ==
  /\ chunks = reply
  /\ \A i \in DOMAIN PartnerTexts :
       \E k \in DOMAIN completed : PartnerTexts[i].html = markedParse(completed[k])

\* C5: no partial text of a reply is rendered: the partner texts are
\* renderings of completed replies only, the entry of the open reply is its
\* placeholder, and a chunk that is neither first nor done leaves the
\* timeline as it was.
C5_NoPartial ==
  /\ Len(PartnerTexts) <= Len(completed)
  /\ \A i \in DOMAIN PartnerTexts :
       \E k \in DOMAIN completed : PartnerTexts[i].html = markedParse(completed[k])
  /\ \A i \in DOMAIN timeline :
       (reply # <<>> /\ el # 0 /\ timeline[i].node = el)
         => timeline[i] = ContentMessage("partner", el)

C5_RenderOnce ==
  /\ []C5_NoPartial
  /\ [][(reply # <<>> /\ reply' # <<>> /\ nmsgs' = nmsgs + 1)
          => timeline' = timeline]_vars

\* A reply with two chunks received and not done, its placeholder shown.
C5_Witness ==
  /\ Len(reply) >= 2
  /\ \E i \in DOMAIN timeline : timeline[i] = ContentMessage("partner", el)
  /\ PartnerTexts # <<>>

\* C6: once an error event has been fired on the channel the subscription
\* is closed: it never opens again, no later message is processed and the
\* timeline gains no partner entry.
C6_ClosedAfterError ==
  [][errored => /\ readyState' # "OPEN"
                /\ nmsgs' = nmsgs
                /\ PartnerEntries' = PartnerEntries]_vars

\* C7: after a rejected capture request the rejection is logged once, there
\* is no recorder and no session, Mode is MIC with an empty field and SUBMIT
\* with a non-empty one (so clicks with an empty field leave it MIC and
\* typing still moves it), and a press with non-empty text submits it.
C7_DeniedInert ==
  grant = "denied" =>
    /\ mediaRecorder = "undefined"
    /\ nsessions = 0 /\ calls = <<>> /\ ~active
    /\ Cardinality({i \in DOMAIN console :
                      console[i] = "error encountered from getUserMedia"}) = 1
    /\ state = (IF value = <<>> THEN ENTITY_MICROPHONE ELSE ENTITY_SUBMIT)
    /\ value = <<>> =>
         ~ENABLED (Click /\ state' # ENTITY_MICROPHONE)
    /\ (value # <<>> /\ NumTextPosts + nsessions < MaxTurns) =>
         /\ ENABLED (Click /\ posts' = Append(posts, TextBody(value)))
         /\ ~ENABLED (Click /\ posts' # Append(posts, TextBody(value)))

\* Denied, a click with an empty field was refused, and text was typed.
C7_Witness ==
  /\ grant = "denied"
  /\ console = <<"error encountered from getUserMedia",
                 "mediaRecorder is not available">>
  /\ state = ENTITY_SUBMIT
  /\ TextPosts # <<>>

\* C8: the calls on the recorder are start, stop, start, ... in strict
\* alternation, the recorder records exactly between a start and the next
\* stop, and a click with an empty field makes exactly one call: start when
\* the recorder is inactive, stop when it is recording.
C8_Alternate ==
  /\ \A i \in DOMAIN calls : calls[i] = (IF i % 2 = 1 THEN "start" ELSE "stop")
  /\ mediaRecorder = "recording" <=> Len(calls) % 2 = 1
  /\ nsessions = (Len(calls) + 1) \div 2
  /\ (value = <<>> /\ mediaRecorder = "recording") =>
       /\ ENABLED (Click /\ calls' = Append(calls, "stop"))
       /\ ~ENABLED (Click /\ calls' # Append(calls, "stop"))
  /\ (value = <<>> /\ mediaRecorder = "inactive") =>
       ~ENABLED (Click /\ calls' # Append(calls, "start"))

\* Two sessions started and stopped, with typing in between.
C8_Witness ==
  /\ calls = <<"start", "stop", "start", "stop">>
  /\ TextPosts # <<>>

\* C9: every capture whose stop task has run has one self audio message,
\* in session order, whose clip is all the blobs of that session in arrival
\* order, and one read or one audio post of that clip; the buffer holds only
\* blobs of the session whose clip is still to be built.  Every stopped
\* capture eventually has its audio message and its audio post.
NumStopped == Len(calls) \div 2
NumFinalized == NumStopped - Len(stopTasks)
Upload(blob) == AudioBody(stripPrefix(readAsDataURL(blob)))
NumUploads(blob) ==
  Cardinality({i \in DOMAIN posts : posts[i] = Upload(blob)})

C9_OneClipEach ==
  /\ Len(AudioEntries) = NumFinalized
  /\ \A s \in 1..NumFinalized :
       /\ AudioEntries[s] = AudioMessage("self", captured[s])
       /\ Len(captured[s]) >= 1
       /\ \A k \in DOMAIN captured[s] : captured[s][k] = Blob(s, k)
       /\ NumUploads(captured[s]) + (IF captured[s] \in readers THEN 1 ELSE 0)
            = 1
  /\ Len(AudioPosts) + Cardinality(readers) = NumFinalized
  /\ recChunks = (IF stopTasks # <<>> THEN captured[Head(stopTasks)]
                  ELSE IF mediaRecorder = "recording" THEN captured[nsessions]
                  ELSE <<>>)

C9_Delivered(s) ==
  /\ s <= NumFinalized
  /\ AudioEntries[s] = AudioMessage("self", captured[s])
  /\ NumUploads(captured[s]) = 1

\* Posts and the timeline only grow, so a delivered capture stays delivered:
\* that all stopped captures are delivered again and again says that each
\* of them eventually is.
C9_AllDelivered == \A s \in 1..NumStopped : C9_Delivered(s)

C9_CaptureYieldsClip ==
  /\ []C9_OneClipEach
  /\ []<>C9_AllDelivered

\* Two captures delivered, the first with a blob fired before its stop.
C9_Witness ==
  /\ NumFinalized = 2
  /\ Len(captured[1]) = 2
  /\ C9_Delivered(1) /\ C9_Delivered(2)
  /\ recChunks = <<>>

\* C10: the text posts are, in order, the texts of the self messages
\* followed by the texts still awaiting their animation frame, none empty;
\* a press with field content t posts t once and queues one frame; the frame
\* appends the self message of its text, leaves the field empty and Mode
\* MIC; every queued frame runs.
C10_PostsMatch ==
  /\ Rendered([i \in DOMAIN TextPosts |-> TextPosts[i].data])
       = Html(SelfTexts) \o Rendered(rafQueue)
  /\ \A i \in DOMAIN TextPosts : TextPosts[i].data # <<>>
  /\ (value # <<>> /\ NumTextPosts + nsessions < MaxTurns) =>
       /\ ENABLED (Click /\ posts' = Append(posts, TextBody(value))
                         /\ rafQueue' = Append(rafQueue, value))
       /\ ~ENABLED (Click /\ ~(/\ posts' = Append(posts, TextBody(value))
                               /\ rafQueue' = Append(rafQueue, value)
                               /\ timeline' = timeline /\ value' = value))
       /\ ENABLED (Keydown /\ posts' = Append(posts, TextBody(value))
                           /\ rafQueue' = Append(rafQueue, value))
       /\ ~ENABLED (Keydown /\ posts' # posts
                            /\ ~(/\ posts' = Append(posts, TextBody(value))
                                 /\ rafQueue' = Append(rafQueue, value)
                                 /\ timeline' = timeline /\ value' = value))

C10_TextSend ==
  /\ []C10_PostsMatch
  /\ [][Len(rafQueue') < Len(rafQueue) =>
          /\ timeline' = Append(timeline, TextMessage("self", Head(rafQueue)))
          /\ rafQueue' = Tail(rafQueue)
          /\ value' = <<>>
          /\ state' = ENTITY_MICROPHONE
          /\ posts' = posts]_vars
  /\ []<>(rafQueue = <<>>)

\* "hi" was sent from Mode SUBMIT and its frame has run.
C10_Witness ==
  /\ TextPosts = <<TextBody(<<"h", "i">>)>>
  /\ SelfTexts = <<TextMessage("self", <<"h", "i">>)>>
  /\ rafQueue = <<>> /\ value = <<>> /\ state = ENTITY_MICROPHONE

\* C11: a press submits text only when the field is non-empty and toggles
\* the capture only when it is empty: no text post and no self text message
\* is empty, a click or Enter with an empty field posts nothing, and a click
\* with a non-empty field posts and makes no call on the recorder.
C11_PressByField ==
  /\ \A i \in DOMAIN TextPosts : TextPosts[i].data # <<>>
  /\ \A i \in DOMAIN SelfTexts : SelfTexts[i].html # <<>>
  /\ \A i \in DOMAIN rafQueue : rafQueue[i] # <<>>
  /\ value = <<>> =>
       /\ ~ENABLED (Click /\ (posts' # posts \/ rafQueue' # rafQueue))
       /\ ~ENABLED (Keydown /\ ~UNCHANGED vars)
  /\ value # <<>> =>
       /\ ~ENABLED (Click /\ (calls' # calls \/ mediaRecorder' # mediaRecorder
                              \/ state' # state \/ posts' = posts))
       /\ ~ENABLED (Keydown /\ (calls' # calls
                                \/ mediaRecorder' # mediaRecorder))

\* Text was submitted while a capture was recording, and a capture was
\* stopped with an empty field.
C11_Witness ==
  /\ TextPosts # <<>> /\ SelfTexts # <<>>
  /\ calls = <<"start", "stop">>
  /\ value = <<>>

\* C12: transition is total and follows the table: from MIC, SUBMIT on
\* non-empty text, MIC on empty text, RECORDING on no signal; from SUBMIT,
\* SUBMIT on non-empty text and MIC on empty text; from RECORDING, MIC on any
\* signal; the result is always one of the three Modes.
Modes == {ENTITY_MICROPHONE, ENTITY_RECORD, ENTITY_SUBMIT}
Signals == {Str(t) : t \in Texts} \cup {Undefined}

C12_Table(mode, sig) ==
  IF mode = ENTITY_MICROPHONE
  THEN IF sig.type # "string" THEN {ENTITY_RECORD}
       ELSE IF sig.val # <<>> THEN {ENTITY_SUBMIT} ELSE {ENTITY_MICROPHONE}
  ELSE IF mode = ENTITY_SUBMIT
  THEN IF sig.type # "string" THEN Modes
       ELSE IF sig.val # <<>> THEN {ENTITY_SUBMIT} ELSE {ENTITY_MICROPHONE}
  ELSE {ENTITY_MICROPHONE}

C12_TransitionTable ==
  /\ state \in Modes
  /\ \A sig \in Signals :
       /\ transition(sig) \in Modes
       /\ transition(sig) \in C12_Table(state, sig)

\* All three Modes have been current: a capture was started and stopped by
\* clicks and a text was sent from SUBMIT.
C12_Witness ==
  /\ state = ENTITY_SUBMIT
  /\ calls = <<"start", "stop">>
  /\ SelfTexts # <<>>

\* C13: in Mode SUBMIT an input event that carries the field's own non-empty
\* value again leaves Mode SUBMIT and the glyph as it was, however often it
\* is sent.
C13_Idempotent ==
  (state = ENTITY_SUBMIT /\ value # <<>>) =>
    /\ transition(Str(value)) = ENTITY_SUBMIT
    /\ ENABLED (Input /\ value' = value)
    /\ ~ENABLED (Input /\ value' = value
                       /\ (state' # ENTITY_SUBMIT \/ glyph' # glyph))

\* Mode SUBMIT with "hi" in the field, after an earlier submission.
C13_Witness ==
  /\ state = ENTITY_SUBMIT
  /\ value = <<"h", "i">>
  /\ SelfTexts # <<>>

\* C14: with an empty field and a recorder, a click in Mode RECORDING makes
\* exactly the call stop() and a click in Mode MIC makes exactly the call
\* start().
C14_ModeDecidesClick ==
  (value = <<>> /\ mediaRecorder # "undefined") =>
    /\ state = ENTITY_RECORD =>
         ~ENABLED (Click /\ calls' # Append(calls, "stop"))
    /\ state = ENTITY_MICROPHONE =>
         ~ENABLED (Click /\ calls' # Append(calls, "start"))

\* C15: the glyph on the action button is the glyph of the current Mode,
\* after every handled event.
C15_GlyphIsMode == glyph = state

\* The stop/record glyph is shown after clicks, typing and a deferred
\* submit step.
C15_Witness ==
  /\ glyph = ENTITY_RECORD
  /\ SelfTexts # <<>>
  /\ Len(calls) >= 2

\* C16: every clip being read or already posted has its self audio message
\* in the timeline.
C16_UploadAfterRender ==
  /\ \A blob \in readers :
       \E j \in DOMAIN AudioEntries :
         AudioEntries[j] = AudioMessage("self", blob)
  /\ \A i \in DOMAIN AudioPosts :
       \E j \in DOMAIN AudioEntries :
         /\ AudioEntries[j].owner = "self"
         /\ AudioPosts[i] = Upload(AudioEntries[j].clip)

\* C16 as claimed: rendering is synchronous with the stop() call, so while a
\* stop is pending the only step that takes effect is the one that appends
\* the self audio message, and uploads follow their rendering.
C16_SyncWithStop ==
  /\ []C16_UploadAfterRender
  /\ [][stopTasks # <<>> =>
          Len(AudioEntries') = Len(AudioEntries) + 1]_vars

\* C16 as amended: the recorder's stop task, whenever it runs, builds the
\* clip and appends its self audio message in one step; a read of a clip
\* starts in that step and the audio post is issued by a later step, for a
\* clip whose message is already in the timeline.
C16_RenderInStopTask ==
  /\ []C16_UploadAfterRender
  /\ [][Len(stopTasks') < Len(stopTasks) =>
          LET blob == captured'[Head(stopTasks)] IN
            /\ timeline' = Append(timeline, AudioMessage("self", blob))
            /\ readers' = readers \cup {blob}
            /\ posts' = posts]_vars
  /\ [][Len(AudioPosts') > Len(AudioPosts) =>
          \E j \in DOMAIN AudioEntries :
            /\ AudioPosts' = Append(AudioPosts, Upload(AudioEntries[j].clip))
            /\ timeline' = timeline]_vars

\* A clip rendered and uploaded, with a text submitted and rendered before
\* the clip's message and a second capture already stopped.
C16_Witness ==
  /\ Len(timeline) >= 2
  /\ timeline[1].kind = "text"
  /\ timeline[Len(timeline)].kind = "audio"
  /\ AudioPosts # <<>>
  /\ stopTasks # <<>>

\* C17: the timeline is append-only and replacement is in place: a step
\* appends at most one entry at the end and removes none, an entry changes
\* only from a partner placeholder to a partner text at the same position,
\* a done chunk leaves the number of entries as it was, and no placeholder
\* is in the timeline twice; so entries appended after a reply's placeholder
\* stay after that reply's entry.
C17_NoDuplicate ==
  \A i, j \in DOMAIN timeline :
    (i # j /\ timeline[i].kind = "indicator" /\ timeline[j].kind = "indicator")
      => timeline[i].node # timeline[j].node

C17_InPlace ==
  /\ []C17_NoDuplicate
  /\ [][/\ Len(timeline') \in {Len(timeline), Len(timeline) + 1}
        /\ \A i \in DOMAIN timeline :
             \/ timeline'[i] = timeline[i]
             \/ /\ timeline[i].owner = "partner"
                /\ timeline[i].kind = "indicator"
                /\ timeline'[i].owner = "partner"
                /\ timeline'[i].kind = "text"
        /\ Len(completed') > Len(completed) =>
             Len(timeline') = Len(timeline)]_vars

\* A reply of two chunks rendered in first place, with a self message
\* behind it and an audio message behind that.
C17_Witness ==
  /\ Len(timeline) = 3
  /\ timeline[1].owner = "partner" /\ timeline[1].kind = "text"
  /\ timeline[2].owner = "self" /\ timeline[2].kind = "text"
  /\ timeline[3].kind = "audio"

\* C18: a channel step (a message, an open, an error) leaves Mode, the
\* field, the glyph, the decoration, the capture pipeline, the pending
\* frames, the posts and the console as they were; a step of the input side
\* leaves the reply's chunks and its anchor as they were; so with an anchor
\* the chunks held are the chunks received for the open reply, and every
\* partner text is the rendering of a whole reply, in every interleaving.
C18_ChannelStep ==
  nmsgs' # nmsgs \/ readyState' # readyState \/ errored' # errored

C18_InputStep ==
  <<inputVars, recVars, rafQueue, posts, console>>'
    # <<inputVars, recVars, rafQueue, posts, console>>

C18_ReplyIntact ==
  /\ el # 0 => chunks = reply
  /\ \A i \in DOMAIN PartnerTexts :
       \E k \in DOMAIN completed :
         PartnerTexts[i] = TextMessage("partner", completed[k])

C18_Independent ==
  /\ []C18_ReplyIntact
  /\ [][C18_ChannelStep =>
          UNCHANGED <<inputVars, recVars, rafQueue, posts, console>>]_vars
  /\ [][C18_InputStep => UNCHANGED <<chunks, el, nextNode, reply, completed>>]_vars

\* A reply rendered whole although a capture was stopped, finalized and a
\* text typed while its chunks were arriving.
C18_Witness ==
  /\ Len(completed) = 1 /\ Len(PartnerTexts) = 1 /\ nmsgs >= 2
  /\ AudioEntries # <<>>
  /\ value # <<>>
  /\ timeline[1].kind = "audio"

\* C19: the active decoration of the button follows the capture session,
\* not Mode: in every reachable state it is present if and only if the
\* recorder is recording, also after text was typed or submitted while the
\* recording was in progress.
C19_DecorationFollowsCapture == active <=> mediaRecorder = "recording"

\* The decoration is on and the recorder records, after a text was typed
\* and rendered during the recording, with Mode no longer RECORDING.
C19_Witness ==
  /\ active
  /\ mediaRecorder = "recording"
  /\ SelfTexts # <<>>
  /\ state = ENTITY_MICROPHONE

\* C20: a text submission loses no input: the field content that the
\* deferred render-and-clear step clears equals the text that was posted
\* and is rendered for that press.
C20_ClearsWhatWasPosted ==
  [][Len(rafQueue') < Len(rafQueue) => value = Head(rafQueue)]_vars

=============================================================================
